---- MODULE Spec2Model ----
(***************************************************************************)
(* httpdump: capture handlers insert request records into one storage      *)
(* target (table raw_requests); a ticker starts one ProcessBatch goroutine *)
(* per interval, which claims a batch (MarkBatch), fetches it              *)
(* (ReadRequests), hands it to the Processor and finalizes it (BatchDone). *)
(* Every SQL statement is one atomic step of the engine; everything        *)
(* between two statements can interleave with other goroutines.            *)
(***************************************************************************)
EXTENDS Integers, Sequences, FiniteSets, TLC

\* ---- bounds ----
MaxWrites == 3      \* capture requests that arrive
MaxTicks == 2       \* ticker intervals that elapse
MaxTime == 1        \* last value the wall clock reaches
MaxFaults == 1      \* storage calls and request reads that fail
MaxCalls == 2       \* calls of ExecRetry / QueryRetry that are made
MaxAttempts == 3    \* the attempt counter of a call stops counting here
MaxOpens == 3       \* times a storage target is opened
MaxBatch == 6       \* records in the batch of the first ProcessRequests
MaxOverlap == 1     \* records in the batch of a ProcessRequests that overlaps it
MaxStr == 2         \* characters in a field of PGConfig
MaxOpts == 1        \* entries of PGConfig.Opts

\* ---- values of the program ----
\* SQL NULL of the batch column (a value no id and no sentinel takes)
NULL == -2
\* the tag BatchDone of the marking variant writes
DoneTag == -1
\* the nil error
nil == "nil"

\* https://www.sqlite.org/rescode.html
SQLITE_LOCKED == 6

Handlers == 1..MaxWrites
Ticks == 1..MaxTicks
Calls == 1..MaxCalls
Opens == 1..MaxOpens

VARIABLES
    variant,    \* which BatchDone the build has: "delete" or "mark"
    rows,       \* table raw_requests: set of [id, head, date, batch]
    seq,        \* autoincrement counter of raw_requests.id
    clock,      \* wall clock read by time.Now()
    faults,     \* failures the environment has produced so far
    handler,    \* one capture goroutine per inbound request
    tick,       \* one ProcessBatch goroutine per ticker interval
    call,       \* one goroutine per call of ExecRetry / QueryRetry
    locked,     \* another connection holds a conflicting lock on raw_requests
    build,      \* rotating-file store: mode and wiring of the SQLiteDumper
    started,    \* NewDumper has not run ("no"), returned the dumper, or failed
    curDate,    \* SQLiteDumper.curDate
    dbh,        \* SQLiteDumper.dbh: the database the handle is on, and its state
    dbhRWLock,  \* SQLiteDumper.dbhRWLock: the writer and the readers holding it
    files,      \* the database files (and the in-memory database) by name
    dump,       \* one goroutine per write to the rotating-file store
    batch,      \* one goroutine per batch call on the rotating-file store
    opener,     \* schema initialisation: the function that opens the target
    target,     \* what the storage target has: container, table, index, rows
    opening,    \* one call of the opening function per start of the program
    buf,        \* Loggly.buf: the formatted events written and not yet read
    posts,      \* the POST requests SendRequest has built, with their bodies
    proc,       \* one call of Loggly.ProcessRequests per tick
    cfg,        \* the PGConfig Connect is called on
    conn        \* the call of PGConfig.Connect: its position and its results

vars == <<variant, rows, seq, clock, faults, handler, tick, call, locked,
          build, started, curDate, dbh, dbhRWLock, files, dump, batch,
          opener, target, opening, buf, posts, proc, cfg, conn>>

\* the state of the capture / batch goroutines, and of the retry wrappers
batchVars == <<variant, clock, handler, tick>>
retryVars == <<call, locked>>
rotVars == <<build, started, curDate, dbh, dbhRWLock, files, dump, batch>>
\* what the rotating-file store leaves alone
notRotVars == <<variant, rows, seq, handler, tick, call, locked, opener, target, opening,
                buf, posts, proc, cfg, conn>>
\* the state of the schema initialisation
initVars == <<opener, target, opening>>
\* the state of the Loggly processor, and of PGConfig.Connect
logVars == <<buf, posts, proc>>
pgVars == <<cfg, conn>>

\* the outcomes a call into the engine (or a read of the request) can have
Outcomes == IF faults < MaxFaults THEN {TRUE, FALSE} ELSE {TRUE}

Fault(ok) == faults' = IF ok THEN faults ELSE faults + 1

\* ---- helpers ----
Max(S) == CHOOSE x \in S : \A y \in S : y <= x

Ids(rs) == {r.id : r \in rs}

\* (variant) WHERE (batch <= 0 OR batch IS NULL)
IsPending_NotPositive(r) == r.batch <= 0 \/ r.batch = NULL

\* WHERE (batch == 0 OR batch IS NULL)
IsPending(r) == r.batch = 0 \/ r.batch = NULL

Pending(rs) == {r \in rs : IsPending(r)}

\* ---- storage: write ----
\* (variant) integer primary key without autoincrement: the engine hands out
\* max(id)+1, so the id of a deleted row comes back
InsertRow_ReuseRowid(rs, lastID, head, when) ==
    rs \cup {[id |-> (IF rs = {} THEN 0 ELSE Max(Ids(rs))) + 1, head |-> head,
              date |-> when, batch |-> NULL]}

\* INSERT INTO raw_requests (head, data, date): id from the autoincrement
\* counter, batch left NULL
InsertRow(rs, lastID, head, when) ==
    rs \cup {[id |-> lastID + 1, head |-> head, date |-> when, batch |-> NULL]}

\* ---- storage: claim (MarkBatch) ----
\* SELECT max(id) FROM raw_requests WHERE (batch == 0 OR batch IS NULL);
\* max over no rows is NULL (maxID.Valid == false)
SelectMaxPending(rs) ==
    IF Pending(rs) = {} THEN NULL ELSE Max(Ids(Pending(rs)))

\* (variant) the update without the pending test: WHERE id <= $1
MarkMatch_AnyTag(r, maxID) == r.id <= maxID

\* (variant) the update with a strict bound: ... AND id < $1
MarkMatch_Strict(r, maxID) == IsPending(r) /\ r.id < maxID

\* (variant) the update without the watermark: WHERE (batch == 0 OR batch IS NULL)
MarkMatch_NoWatermark(r, maxID) == IsPending(r)

\* WHERE (batch == 0 OR batch IS NULL) AND id <= $1
MarkMatch(r, maxID) == IsPending(r) /\ r.id <= maxID

\* (variant) an update of the row of the maximum alone: WHERE id = $1
MarkUpdate_One(rs, maxID) ==
    {IF IsPending(r) /\ r.id = maxID THEN [r EXCEPT !.batch = maxID] ELSE r : r \in rs}

\* (variant) an update that tags anew the rows that carry a tag
MarkUpdate_Retag(rs, maxID) ==
    {IF r.id <= maxID /\ r.batch # DoneTag THEN [r EXCEPT !.batch = maxID] ELSE r : r \in rs}

\* UPDATE raw_requests SET batch = $1 WHERE ...
MarkUpdate(rs, maxID) ==
    {IF MarkMatch(r, maxID) THEN [r EXCEPT !.batch = maxID] ELSE r : r \in rs}

\* res.RowsAffected()
RowsAffected(rs, maxID) == Cardinality({r \in rs : MarkMatch(r, maxID)})

\* (variant) MarkBatch without the RowsAffected test
MarkBatchReturn_Always(maxID, n) == maxID

\* (variant) MarkBatch that returns the number of rows it tagged
MarkBatchReturn_Count(maxID, n) == IF n <= 0 THEN 0 ELSE n

\* n <= 0 -> return 0, nil; otherwise return maxID.Int64, nil
MarkBatchReturn(maxID, n) == IF n <= 0 THEN 0 ELSE maxID

\* ---- storage: fetch (ReadRequests) ----
\* WHERE batch == $1
SelectBatch(rs, batchID) == {r \in rs : r.batch = batchID}

\* (variant) ORDER BY id ASC
FirstByDate_ById(S) == {r \in S : \A x \in S : r.id <= x.id}

\* the row(s) ORDER BY date ASC may deliver first
FirstByDate(S) == {r \in S : \A x \in S : r.date <= x.date}

\* ORDER BY date ASC: every order of S that is ascending in date (rows with
\* equal date come in an order the engine chooses)
RECURSIVE OrderByDate(_)
OrderByDate(S) ==
    IF S = {} THEN {<<>>}
    ELSE UNION {{<<r>> \o s : s \in OrderByDate(S \ {r})} : r \in FirstByDate(S)}

\* the scan loop: every Request gets req.ID = &tmpID, one variable shared by
\* all iterations, so after the loop each ID reads the id scanned last;
\* rid is the id of the row the element's head, data and date come from
ScanRows(s) ==
    [i \in 1..Len(s) |->
        [ID |-> s[Len(s)].id, rid |-> s[i].id, Head |-> s[i].head, When |-> s[i].date]]

\* the results ReadRequests(batchID) can return on store rs
ReadRequests(rs, batchID) == {ScanRows(s) : s \in OrderByDate(SelectBatch(rs, batchID))}

\* ---- storage: finalize (BatchDone) ----
\* (variant) DELETE FROM raw_requests WHERE batch <= $1
BatchDoneDelete_UpTo(rs, batchID) == {r \in rs : ~(r.batch <= batchID)}

\* DELETE FROM raw_requests WHERE batch = $1
BatchDoneDelete(rs, batchID) == {r \in rs : r.batch # batchID}

\* UPDATE raw_requests SET batch=-1 WHERE batch = $1
BatchDoneMark(rs, batchID) ==
    {IF r.batch = batchID THEN [r EXCEPT !.batch = DoneTag] ELSE r : r \in rs}

BatchDone(v, rs, batchID) ==
    IF v = "delete" THEN BatchDoneDelete(rs, batchID) ELSE BatchDoneMark(rs, batchID)

\* ---- ProcessBatch control flow: the step that follows each call ----
\* (variant) ProcessBatch without the batchID == 0 test
AfterMarkBatch_NoZeroTest(batchID, err) ==
    IF err # nil THEN "returned" ELSE "ReadRequests"

\* batchID, err := b.MarkBatch(); err != nil -> return; batchID == 0 -> return
AfterMarkBatch(batchID, err) ==
    IF err # nil THEN "returned" ELSE IF batchID = 0 THEN "returned" ELSE "ReadRequests"

\* (variant) ProcessBatch that goes from the fetch straight to BatchDone
AfterReadRequests_NoProcessor(reqs, err) ==
    IF err # nil THEN "returned" ELSE IF Len(reqs) = 0 THEN "returned" ELSE "BatchDone"

\* (variant) ProcessBatch that calls ReadRequests again when it fails
AfterReadRequests_Retry(reqs, err) ==
    IF err # nil THEN "ReadRequests" ELSE IF Len(reqs) = 0 THEN "returned" ELSE "ProcessRequests"

\* reqs, err := b.ReadRequests(batchID); err != nil -> return; len(reqs) == 0 -> return
AfterReadRequests(reqs, err) ==
    IF err # nil THEN "returned" ELSE IF Len(reqs) = 0 THEN "returned" ELSE "ProcessRequests"

\* (variant) ProcessBatch that ignores the Processor's error
AfterProcessRequests_IgnoreErr(err) == "BatchDone"

\* err = p.ProcessRequests(reqs); err != nil -> return
AfterProcessRequests(err) ==
    IF err # nil THEN "returned" ELSE "BatchDone"

\* ---- Processor: the Loggly forwarder ----
\* what the sink does with one POST: the connection fails, or it answers with
\* status 200, or it answers with another status
Answers == {"unreachable", "200", "503"}

\* Loggly.SendRequest: an error of Client.Do is returned; a response is logged
\* (res.StatusCode != http.StatusOK: request and response; otherwise the byte
\* count) and nil is returned
SendRequest(answer) == IF answer = "unreachable" THEN "processor" ELSE nil

\* Loggly.ProcessRequests on a batch that fits one POST (every event within
\* EventMax, the sum within BatchMax): the events go to the buffer and, size
\* being > 0, one SendRequest follows the loop
ProcessRequests(reqs, answer) == IF Len(reqs) > 0 THEN SendRequest(answer) ELSE nil

\* (variant) ProcessBatch that returns len(reqs) with the error of BatchDone
ProcessBatchCount_Len(reqs, err) == Len(reqs)

\* the int ProcessBatch returns
ProcessBatchCount(reqs, err) == IF err # nil THEN 0 ELSE Len(reqs)

\* ---- capture handler: the status the client gets ----
\* (variant) a handler that logs the error and answers as if the write was made
HandlerStatus_LogOnly(err) == 200

\* err != nil -> http.Error(w, ..., http.StatusInternalServerError); return;
\* otherwise the handler writes nothing and net/http answers 200
HandlerStatus(err) == IF err # nil THEN 500 ELSE 200

\* ---- the rotating-file store: values ----
\* a file name: now.Format(DateFormats[dateFormat]) + ".db", one per time bucket
Label(t) == <<"db", t>>

\* the zero value of curDate
NoDate == <<"", 0>>

\* dateFmt "memory": "file:foo.db?cache=shared&mode=memory"
MemDB == <<"memory", 0>>

Targets == {Label(t) : t \in 0..MaxTime} \cup {MemDB}

\* the nil *sql.DB
NilDbh == [file |-> NoDate, state |-> "nil"]

\* a database that does not exist yet
NoFile == [exists |-> FALSE, inits |-> 0, opened |-> 0, lastID |-> 0, rows |-> {}]

\* the builds of the SQLiteDumper: NewDumper opens the handle (it calls
\* updateCurDate) or leaves it nil; the write is DumpRequest, which calls
\* updateCurDate first, or Dump, which does not; the in-memory mode exists
\* where NewDumper opens the handle
Builds ==
    {b \in [inMemory : BOOLEAN, opens : BOOLEAN, rotates : BOOLEAN] :
        /\ b.inMemory => b.opens
        /\ ~b.opens => b.rotates}

DumpInit ==
    [pc |-> "recv", now |-> 0, err |-> nil]

BatchInit ==
    [pc |-> "wait", op |-> "none", err |-> nil]

\* the SQLiteDumper before NewDumper has run
RotFresh ==
    /\ started = "no"
    /\ curDate = NoDate
    /\ dbh = NilDbh
    /\ dbhRWLock = [w |-> 0, r |-> {}]
    /\ files = [f \in Targets |-> NoFile]
    /\ dump = [h \in Handlers |-> DumpInit]
    /\ batch = [t \in Ticks |-> BatchInit]

\* the rotating-file store is not part of the run
RotIdle ==
    /\ build = [inMemory |-> FALSE, opens |-> TRUE, rotates |-> FALSE]
    /\ RotFresh

\* ---- schema initialisation: values ----
\* the functions that open a storage target and initialise it
Openers == {"reopenDBFile", "SchemaInit", "DbConnect"}

\* a target that does not exist: no database file (no schema), no table
\* raw_requests, no index on the batch column, no rows
NoTarget == [container |-> FALSE, table |-> FALSE, index |-> FALSE, n |-> 0]

OpeningInit == [pc |-> "idle", plan |-> <<>>, made |-> {}, err |-> nil]

\* the schema initialisation is not part of the run
OpenIdle ==
    /\ opener = "reopenDBFile"
    /\ target = NoTarget
    /\ opening = [o \in Opens |-> OpeningInit]

\* ---- the Loggly processor: values ----
\* loggly := &Loggly{ ..., BatchMax: 5 * 1024 * 1024, EventMax: 1024 * 1024 }
BatchMax == 5 * 1024 * 1024
EventMax == 1024 * 1024

\* a storage.Request as ProcessRequests sees it: len is len(Head) + len(Data)
\* and lf is the number of line breaks in them that are a bare "\n" (the other
\* line breaks are "\r\n"). Head holds the request line, so no record is empty
Shapes ==
    { [len |-> 64, lf |-> 0],
      [len |-> EventMax - 1, lf |-> 1],
      [len |-> EventMax, lf |-> 1] }

\* lineBreak.ReplaceAll(x, []byte(`\n`)): every line break becomes the two
\* bytes backslash and n, so a bare "\n" grows by one byte and a "\r\n" keeps
\* its length; esize = int64(len(head) + len(data))
Formatted(req) == req.len + req.lf

\* the batches a call of ProcessRequests is given
Batches(t) ==
    UNION { [1..n -> Shapes] : n \in 0..(IF t = 1 THEN MaxBatch ELSE MaxOverlap) }

\* a call of ProcessRequests that has not started
ProcInit == [pc |-> "idle", reqs |-> <<>>, i |-> 0, size |-> 0, sends |-> 0, err |-> nil]

\* the Loggly processor is not part of the run
LogIdle ==
    /\ buf = <<>>
    /\ posts = {}
    /\ proc = [t \in Ticks |-> ProcInit]

\* ---- PGConfig.Connect: values ----
\* the characters of the fields: a letter and a space
Chars == {"a", " "}

\* var whitespace = regexp.MustCompile(`\s`): the class [\t\n\f\r ]
Whitespace == {" ", "\t", "\n", "\f", "\r"}

\* the strings of at most n characters
StringsUpTo(n) == UNION { [1..m -> Chars] : m \in 0..n }

\* a map[string]string of at most MaxOpts entries: a function from the
\* names it holds to their values
OptMaps ==
    UNION { [names -> StringsUpTo(MaxStr)] :
              names \in { K \in SUBSET StringsUpTo(1) : Cardinality(K) <= MaxOpts } }

\* the entries <<name, value>> of a map
Entries(m) == { <<k, m[k]>> : k \in DOMAIN m }

\* the PGConfig values Connect is called on
Configs ==
    [Db : StringsUpTo(MaxStr), User : StringsUpTo(1), Pass : StringsUpTo(MaxStr),
     Opts : OptMaps, Url : StringsUpTo(1)]

\* the zero PGConfig
NoConfig == [Db |-> <<>>, User |-> <<>>, Pass |-> <<>>, Opts |-> <<>>, Url |-> <<>>]

\* a call of Connect that has not started
ConnInit == [pc |-> "idle", dsn |-> <<>>, err |-> nil, dbh |-> FALSE]

\* PGConfig.Connect is not part of the run
PgIdle ==
    /\ cfg = NoConfig
    /\ conn = ConnInit

\* ---- initial state ----
\* a call of a retry wrapper that has not started
CallInit ==
    [pc |-> "idle", kind |-> "none", attempts |-> 0, sleeps |-> 0,
     first |-> "none", last |-> "none", ret |-> 0, err |-> [type |-> nil, code |-> 0]]

HandlerInit ==
    [pc |-> "recv", when |-> 0, status |-> 0, err |-> nil]

TickInit ==
    [pc |-> "wait", maxID |-> 0, batchID |-> 0, reqs |-> <<>>, n |-> 0, err |-> nil,
     calls |-> {}, pres |-> "none", sink |-> "none", tagged |-> {}, finalized |-> {}, pend |-> {},
     mid |-> {}, quiet |-> FALSE]

Init ==
    /\ variant \in {"delete", "mark"}
    /\ rows = {}
    /\ seq = 0
    /\ clock = 0
    /\ faults = 0
    /\ handler = [h \in Handlers |-> HandlerInit]
    /\ tick = [t \in Ticks |-> TickInit]
    /\ call = [c \in Calls |-> CallInit]
    /\ locked = FALSE
    /\ OpenIdle
    /\ LogIdle
    /\ PgIdle
    /\ RotIdle

\* ---- capture handler (HandlerFactory) ----
\* DumpRequest / ReadAll, then req.When = time.Now(); requests are numbered
\* in the order their handlers get here
HandlerRead(h) ==
    /\ handler[h].pc = "recv"
    /\ \A g \in Handlers : g < h => handler[g].pc # "recv"
    /\ \E ok \in Outcomes, now \in {clock, clock + 1} :
        /\ now <= MaxTime
        /\ Fault(ok)
        /\ IF ok
           THEN /\ handler' = [handler EXCEPT ![h].pc = "Dump", ![h].when = now]
                /\ clock' = now
           ELSE /\ handler' = [handler EXCEPT ![h].pc = "returned", ![h].err = "read",
                                              ![h].status = HandlerStatus("read")]
                /\ now = clock
                /\ UNCHANGED clock
    /\ UNCHANGED <<variant, rows, seq, tick>>
    /\ UNCHANGED <<retryVars, rotVars, initVars, logVars, pgVars>>

\* err = d.Dump(req): one INSERT; the handler answers by the error it returns
Dump(h) ==
    /\ handler[h].pc = "Dump"
    /\ \E ok \in Outcomes :
        /\ Fault(ok)
        /\ IF ok
           THEN /\ rows' = InsertRow(rows, seq, h, handler[h].when)
                /\ seq' = seq + 1
                /\ handler' = [handler EXCEPT ![h].pc = "returned", ![h].when = 0,
                                              ![h].status = HandlerStatus(nil)]
                /\ tick' = [t \in Ticks |->
                               IF tick[t].pc = "MarkUpdate"
                               THEN [tick[t] EXCEPT !.mid = @ \cup {seq + 1}]
                               ELSE tick[t]]
           ELSE /\ handler' = [handler EXCEPT ![h].pc = "returned", ![h].when = 0,
                                              ![h].err = "storage",
                                              ![h].status = HandlerStatus("storage")]
                /\ UNCHANGED <<rows, seq, tick>>
    /\ UNCHANGED <<variant, clock>>
    /\ UNCHANGED <<retryVars, rotVars, initVars, logVars, pgVars>>

\* ---- scheduler ----
\* (variant) a scheduler that runs ProcessBatch in the loop itself, so that an
\* interval starts its cycle when the cycle before it has returned
MayFire_Serial(t) == \A u \in Ticks : u < t => tick[u].pc = "returned"

\* for { select { case <-ticker.C: go func() { ... }() } }: the loop starts a
\* goroutine per interval and does not wait for it
MayFire(t) == TRUE

\* case <-ticker.C: go func() { ProcessBatch(...) }()
TickFire(t) ==
    /\ tick[t].pc = "wait"
    /\ \A u \in Ticks : u < t => tick[u].pc # "wait"
    /\ MayFire(t)
    /\ tick' = [tick EXCEPT ![t].pc = "MarkSelect"]
    /\ UNCHANGED <<variant, rows, seq, clock, faults, handler>>
    /\ UNCHANGED <<retryVars, rotVars, initVars, logVars, pgVars>>

Quiet == \A h \in Handlers : handler[h].pc = "returned"

\* MarkBatch, first statement: SELECT max(id) of the pending rows
MarkBatchSelect(t) ==
    /\ tick[t].pc = "MarkSelect"
    /\ \E ok \in Outcomes :
        LET maxID == SelectMaxPending(rows)
            err == IF ok THEN nil ELSE "storage"
        IN  /\ Fault(ok)
            /\ IF ok /\ maxID # NULL
               THEN tick' = [tick EXCEPT ![t].pc = "MarkUpdate", ![t].maxID = maxID,
                                         ![t].pend = Ids(Pending(rows)), ![t].quiet = Quiet]
               ELSE tick' = [tick EXCEPT ![t].pc = AfterMarkBatch(0, err), ![t].err = err,
                                         ![t].pend = Ids(Pending(rows)), ![t].quiet = Quiet]
    /\ UNCHANGED <<variant, rows, seq, clock, handler>>
    /\ UNCHANGED <<retryVars, rotVars, initVars, logVars, pgVars>>

\* MarkBatch, second statement: UPDATE ... SET batch = maxID, then RowsAffected.
\* The call fails either in Exec (nothing is updated) or in RowsAffected (the
\* update is already applied); both return 0 and the error.
MarkBatchUpdate(t) ==
    /\ tick[t].pc = "MarkUpdate"
    /\ \E ok \in Outcomes, applied \in BOOLEAN :
        LET maxID == tick[t].maxID
            err == IF ok THEN nil ELSE "storage"
            batchID == IF ok THEN MarkBatchReturn(maxID, RowsAffected(rows, maxID)) ELSE 0
        IN  /\ ok => applied
            /\ Fault(ok)
            /\ rows' = IF applied THEN MarkUpdate(rows, maxID) ELSE rows
            /\ tick' = [tick EXCEPT ![t].pc = AfterMarkBatch(batchID, err),
                                    ![t].batchID = batchID, ![t].err = err,
                                    ![t].tagged = Ids(rows' \ rows)]
    /\ UNCHANGED <<variant, seq, clock, handler>>
    /\ UNCHANGED <<retryVars, rotVars, initVars, logVars, pgVars>>

\* reqs, err := b.ReadRequests(batchID)
Read(t) ==
    /\ tick[t].pc = "ReadRequests"
    /\ \E ok \in Outcomes, res \in ReadRequests(rows, tick[t].batchID) :
        LET err == IF ok THEN nil ELSE "storage"
            reqs == IF ok THEN res ELSE <<>>
        IN  /\ Fault(ok)
            /\ tick' = [tick EXCEPT ![t].pc = AfterReadRequests(reqs, err),
                                    ![t].reqs = reqs, ![t].err = err,
                                    ![t].calls = @ \cup {"ReadRequests"}]
    /\ UNCHANGED <<variant, rows, seq, clock, handler>>
    /\ UNCHANGED <<retryVars, rotVars, initVars, logVars, pgVars>>

\* err = p.ProcessRequests(reqs): the Processor posts the batch to the sink and
\* reports success (nil) or failure
Process(t) ==
    /\ tick[t].pc = "ProcessRequests"
    /\ \E answer \in Answers :
        LET err == ProcessRequests(tick[t].reqs, answer)
        IN  tick' = [tick EXCEPT ![t].pc = AfterProcessRequests(err), ![t].err = err,
                                 ![t].pres = IF err = nil THEN "ok" ELSE "fail",
                                 ![t].sink = answer,
                                 ![t].calls = @ \cup {"ProcessRequests"}]
    /\ UNCHANGED <<variant, rows, seq, clock, faults, handler>>
    /\ UNCHANGED <<retryVars, rotVars, initVars, logVars, pgVars>>

\* err = b.BatchDone(batchID); return len(reqs), nil
Done(t) ==
    /\ tick[t].pc = "BatchDone"
    /\ \E ok \in Outcomes :
        LET err == IF ok THEN nil ELSE "storage"
        IN  /\ Fault(ok)
            /\ rows' = IF ok THEN BatchDone(variant, rows, tick[t].batchID) ELSE rows
            /\ tick' = [tick EXCEPT ![t].pc = "returned", ![t].err = err,
                                    ![t].n = ProcessBatchCount(tick[t].reqs, err),
                                    ![t].calls = @ \cup {"BatchDone"},
                                    ![t].finalized = Ids(rows \ rows')]
    /\ UNCHANGED <<variant, seq, clock, handler>>
    /\ UNCHANGED <<retryVars, rotVars, initVars, logVars, pgVars>>

Next ==
    \/ \E h \in Handlers : HandlerRead(h)
    \/ \E h \in Handlers : Dump(h)
    \/ \E t \in Ticks : TickFire(t)
    \/ \E t \in Ticks : MarkBatchSelect(t)
    \/ \E t \in Ticks : MarkBatchUpdate(t)
    \/ \E t \in Ticks : Read(t)
    \/ \E t \in Ticks : Process(t)
    \/ \E t \in Ticks : Done(t)

Spec == Init /\ [][Next]_vars

TypeOK ==
    /\ variant \in {"delete", "mark"}
    /\ seq \in 0..MaxWrites
    /\ clock \in 0..MaxTime
    /\ \A r \in rows : r.id \in 1..seq /\ r.batch \in {NULL, DoneTag} \cup 1..seq

\* ---- the retry wrappers (ExecRetry, QueryRetry) ----
Min(a, b) == IF a < b THEN a ELSE b

\* error values: nil, a sqlite3.Error with its result code, another error of
\* database/sql or the driver, and the error fmt.Errorf builds
NoError == [type |-> nil, code |-> 0]

SqliteError(code) == [type |-> "sqlite3.Error", code |-> code]

OtherError == [type |-> "error", code |-> 0]

\* result codes other than OK and LOCKED (rescode.html: SQLITE_ERROR, SQLITE_BUSY)
OtherCodes == {1, 5}

\* what one db.Exec / db.Query can return: SQLITE_LOCKED while another
\* connection holds the lock and success otherwise, or another failure
AttemptErrors ==
    (IF locked THEN {SqliteError(SQLITE_LOCKED)} ELSE {NoError})
        \cup (IF faults < MaxFaults
              THEN {SqliteError(code) : code \in OtherCodes} \cup {OtherError}
              ELSE {})

ErrClass(err) ==
    IF err.type = nil THEN "ok"
    ELSE IF err.type = "sqlite3.Error" /\ err.code = SQLITE_LOCKED THEN "locked"
    ELSE "other"

\* (variant) a caller that passes no code: map[int]bool{}
RetryCodes_None == {}

\* the codes every caller passes: map[int]bool{SQLITE_LOCKED: true}
RetryCodes == {SQLITE_LOCKED}

\* (variant) a wrapper that returns every error of the first attempt
RetryDecision_NoRetry(err, codes) == "return"

\* (variant) a wrapper that retries on every sqlite3.Error
RetryDecision_AnyCode(err, codes) ==
    IF err.type = nil THEN "return"
    ELSE IF err.type = "sqlite3.Error" THEN "sleep" ELSE "return"

\* the body of the for loop: err == nil -> return; a sqlite3.Error whose code
\* is a key of codes -> wait `after` and loop; any other error -> return
RetryDecision(err, codes) ==
    IF err.type = nil THEN "return"
    ELSE IF err.type = "sqlite3.Error"
         THEN IF err.code \in codes THEN "sleep" ELSE "return"
         ELSE "return"

\* the error the wrapper returns: fmt.Errorf("%s: %d/%d", err, Code,
\* ExtendedCode) for a sqlite3.Error, the error itself otherwise
RetryError(err) ==
    IF err.type = "sqlite3.Error" THEN [type |-> "fmt.Errorf", code |-> err.code] ELSE err

\* a goroutine enters a wrapper: Dump's INSERT through ExecRetry ("Exec") or
\* MarkBatch's SELECT max(id) through QueryRetry ("Query")
CallStart(c) ==
    /\ call[c].pc = "idle"
    /\ \A g \in Calls : g < c => call[g].pc # "idle"
    /\ \E kind \in {"Exec", "Query"} :
        call' = [call EXCEPT ![c].pc = "attempt", ![c].kind = kind]
    /\ UNCHANGED <<rows, seq, faults, locked, batchVars, rotVars, initVars, logVars, pgVars>>

\* one iteration of the loop: db.Exec / db.Query, then the decision
Attempt(c) ==
    /\ call[c].pc = "attempt"
    /\ \E err \in AttemptErrors :
        LET d == RetryDecision(err, RetryCodes)
            cls == ErrClass(err)
        IN  /\ faults' = IF cls = "other" THEN faults + 1 ELSE faults
            /\ IF cls = "ok" /\ call[c].kind = "Exec"
               THEN /\ rows' = InsertRow(rows, seq, c, 0)
                    /\ seq' = seq + 1
               ELSE UNCHANGED <<rows, seq>>
            /\ call' = [call EXCEPT
                   ![c].pc = IF d = "sleep" THEN "sleep" ELSE "returned",
                   ![c].attempts = Min(@ + 1, MaxAttempts),
                   ![c].sleeps = IF d = "sleep" THEN Min(@ + 1, MaxAttempts) ELSE @,
                   ![c].first = IF @ = "none" THEN cls ELSE @,
                   ![c].last = cls,
                   ![c].err = IF d = "sleep" THEN @ ELSE RetryError(err),
                   ![c].ret = IF d # "sleep" /\ cls = "ok" /\ call[c].kind = "Query"
                              THEN SelectMaxPending(rows) ELSE @]
    /\ UNCHANGED <<locked, batchVars, rotVars, initVars, logVars, pgVars>>

\* case <-time.After(after): the timer fires and the loop starts over
Wake(c) ==
    /\ call[c].pc = "sleep"
    /\ call' = [call EXCEPT ![c].pc = "attempt"]
    /\ UNCHANGED <<rows, seq, faults, locked, batchVars, rotVars, initVars, logVars, pgVars>>

\* another connection takes / releases a lock that conflicts with the statement
LockTable ==
    /\ ~locked
    /\ locked' = TRUE
    /\ UNCHANGED <<rows, seq, faults, call, batchVars, rotVars, initVars, logVars, pgVars>>

UnlockTable ==
    /\ locked
    /\ locked' = FALSE
    /\ UNCHANGED <<rows, seq, faults, call, batchVars, rotVars, initVars, logVars, pgVars>>

RetryInit ==
    /\ variant = "delete"
    /\ rows = {}
    /\ seq = 0
    /\ clock = 0
    /\ faults = 0
    /\ handler = [h \in Handlers |-> HandlerInit]
    /\ tick = [t \in Ticks |-> TickInit]
    /\ call = [c \in Calls |-> CallInit]
    /\ locked = FALSE
    /\ OpenIdle
    /\ LogIdle
    /\ PgIdle
    /\ RotIdle

RetryNext ==
    \/ \E c \in Calls : CallStart(c)
    \/ \E c \in Calls : Attempt(c)
    \/ \E c \in Calls : Wake(c)
    \/ LockTable
    \/ UnlockTable

RetrySpec == RetryInit /\ [][RetryNext]_vars

\* a goroutine that can run does run, and the timer of time.After fires
RetryFair ==
    RetrySpec /\ \A c \in Calls : WF_vars(Attempt(c)) /\ WF_vars(Wake(c))

\* ---- the rotating-file store: rotation and write ----
\* (variant) updateCurDate without the inMemory test
RotationBranch_ByDate(b) == "date"

\* updateCurDate: if ctx.inMemory == true { ... } else { ... }
RotationBranch(b) == IF b.inMemory THEN "memory" ELSE "date"

\* updateCurDate decides to open a handle: in memory when there is none,
\* otherwise when the label of now is not curDate
MustReopen(b, h, cur, nowstr) ==
    IF RotationBranch(b) = "memory" THEN h.state = "nil" ELSE cur # nowstr

\* (variant) a write that takes no hold on dbhRWLock
NeedsRLock_Never(b) == FALSE

\* Dump: if sqld.inMemory == false { sqld.dbhRWLock.RLock(); defer RUnlock() }
NeedsRLock(b) == ~b.inMemory

\* where the write goes once updateCurDate has returned nil
AfterUpdateCurDate(b) == IF NeedsRLock(b) THEN "RLock" ELSE "Exec"

\* the database reopenDBFile opens
ReopenTarget(b, nowstr) == IF RotationBranch(b) = "memory" THEN MemDB ELSE nowstr

\* reopenDBFile returns at once: in memory with a handle that is not nil
ReopenSkips(b, h) == b.inMemory /\ h.state # "nil"

\* reopenDBFile: mustInit when the file does not exist (in memory: when the
\* handle is nil); sql.Open; the DDL when mustInit
ReopenFile(b, fs, f) ==
    LET mustInit == IF b.inMemory THEN TRUE ELSE ~fs[f].exists
    IN  [fs EXCEPT ![f] = [exists |-> TRUE,
                           inits |-> fs[f].inits + (IF mustInit THEN 1 ELSE 0),
                           opened |-> fs[f].opened + 1,
                           lastID |-> fs[f].lastID,
                           rows |-> fs[f].rows]]

\* (variant) a return without the deferred Unlock / RUnlock
Release_Keep(l, h) == l

\* the lock after the goroutine has released what it holds of it
Release(l, h) == [w |-> IF l.w = h THEN 0 ELSE l.w, r |-> l.r \ {h}]

\* NewDumper: builds the SQLiteDumper and, where it opens the handle, calls
\* updateCurDate(time.Now()) before any other goroutine has the dumper; on an
\* error no dumper is returned
NewDumper ==
    /\ started = "no"
    /\ \E ok \in Outcomes :
        LET nowstr == Label(clock)
            f == ReopenTarget(build, nowstr)
        IN  /\ Fault(ok)
            /\ ~build.opens => ok
            /\ started' = IF ok THEN "yes" ELSE "failed"
            /\ IF build.opens /\ ok
               THEN /\ curDate' = IF RotationBranch(build) = "memory" THEN curDate ELSE nowstr
                    /\ files' = ReopenFile(build, files, f)
                    /\ dbh' = [file |-> f, state |-> "open"]
               ELSE UNCHANGED <<curDate, files, dbh>>
    /\ UNCHANGED <<build, dbhRWLock, dump, batch, clock, notRotVars>>

\* a write arrives: the caller reads the time (req.When = time.Now()) and
\* calls DumpRequest, which starts with updateCurDate(now), or Dump
DumpArrive(h) ==
    /\ started = "yes"
    /\ dump[h].pc = "recv"
    /\ \A g \in Handlers : g < h => dump[g].pc # "recv"
    /\ \E now \in {clock, clock + 1} :
        /\ now <= MaxTime
        /\ clock' = now
        /\ dump' = [dump EXCEPT ![h].now = now,
                                ![h].pc = IF build.rotates THEN "updateCurDate"
                                          ELSE AfterUpdateCurDate(build)]
    /\ UNCHANGED <<build, started, curDate, dbh, dbhRWLock, files, batch, faults, notRotVars>>

\* updateCurDate: cur := ctx.getCurDate(); if cur != nowstr (in memory: if
\* ctx.dbh == nil)
UpdateCurDate(h) ==
    /\ dump[h].pc = "updateCurDate"
    /\ dump' = [dump EXCEPT ![h].pc =
           IF MustReopen(build, dbh, curDate, Label(dump[h].now))
           THEN IF RotationBranch(build) = "memory" THEN "reopen" ELSE "setCurDate"
           ELSE AfterUpdateCurDate(build)]
    /\ UNCHANGED <<build, started, curDate, dbh, dbhRWLock, files, batch, clock, faults,
                   notRotVars>>

\* ctx.setCurDate(nowstr)
SetCurDate(h) ==
    /\ dump[h].pc = "setCurDate"
    /\ curDate' = Label(dump[h].now)
    /\ dump' = [dump EXCEPT ![h].pc = "Lock"]
    /\ UNCHANGED <<build, started, dbh, dbhRWLock, files, batch, clock, faults, notRotVars>>

\* ctx.dbhRWLock.Lock(): waits until nobody holds the lock
LockDbh(h) ==
    /\ dump[h].pc = "Lock"
    /\ dbhRWLock.w = 0 /\ dbhRWLock.r = {}
    /\ dbhRWLock' = [w |-> h, r |-> {}]
    /\ dump' = [dump EXCEPT ![h].pc = "Close"]
    /\ UNCHANGED <<build, started, curDate, dbh, files, batch, clock, faults, notRotVars>>

\* if ctx.dbh != nil { ctx.dbh.Close() }
CloseDbh(h) ==
    /\ dump[h].pc = "Close"
    /\ dbh' = IF dbh.state = "open" THEN [dbh EXCEPT !.state = "closed"] ELSE dbh
    /\ dump' = [dump EXCEPT ![h].pc = "reopen"]
    /\ UNCHANGED <<build, started, curDate, dbhRWLock, files, batch, clock, faults, notRotVars>>

\* err := ctx.reopenDBFile(dbfile), then the deferred Unlock; on an error
\* ctx.dbh is left as it is and the write returns the error
Reopen(h) ==
    /\ dump[h].pc = "reopen"
    /\ \E ok \in Outcomes :
        LET f == ReopenTarget(build, Label(dump[h].now))
        IN  /\ Fault(ok)
            /\ ReopenSkips(build, dbh) => ok
            /\ IF ok /\ ~ReopenSkips(build, dbh)
               THEN /\ files' = ReopenFile(build, files, f)
                    /\ dbh' = [file |-> f, state |-> "open"]
               ELSE UNCHANGED <<files, dbh>>
            /\ dump' = [dump EXCEPT ![h].pc = IF ok THEN AfterUpdateCurDate(build)
                                                ELSE "returned",
                                    ![h].err = IF ok THEN nil ELSE "storage"]
    /\ dbhRWLock' = Release(dbhRWLock, h)
    /\ UNCHANGED <<build, started, curDate, batch, clock, notRotVars>>

\* sqld.dbhRWLock.RLock(): waits while a writer holds the lock
RLockDbh(h) ==
    /\ dump[h].pc = "RLock"
    /\ dbhRWLock.w = 0
    /\ dbhRWLock' = [dbhRWLock EXCEPT !.r = @ \cup {h}]
    /\ dump' = [dump EXCEPT ![h].pc = "Exec"]
    /\ UNCHANGED <<build, started, curDate, dbh, files, batch, clock, faults, notRotVars>>

\* the INSERT through sqld.dbh, then the deferred RUnlock: a row in the
\* database the handle is on; an error on a closed handle; a nil pointer
\* dereference on the nil handle
DumpExec(h) ==
    /\ dump[h].pc = "Exec"
    /\ files' = IF dbh.state = "open"
                THEN [files EXCEPT ![dbh.file] =
                         [@ EXCEPT !.rows = InsertRow(@, files[dbh.file].lastID, h,
                                                      dump[h].now),
                                   !.lastID = @ + 1]]
                ELSE files
    /\ dump' = [dump EXCEPT ![h].pc = "returned",
                            ![h].err = IF dbh.state = "open" THEN nil
                                       ELSE IF dbh.state = "closed" THEN "storage"
                                       ELSE "panic"]
    /\ dbhRWLock' = Release(dbhRWLock, h)
    /\ UNCHANGED <<build, started, curDate, dbh, batch, clock, faults, notRotVars>>

\* ---- the rotating-file store: batch calls ----
\* what MarkBatch, ReadRequests and BatchDone do to the table the handle is
\* on; no one of them takes dbhRWLock
BatchEffect(op, rs, w) ==
    IF op = "MarkBatch"
    THEN IF SelectMaxPending(rs) = NULL THEN rs ELSE MarkUpdate(rs, SelectMaxPending(rs))
    ELSE IF op = "BatchDone" THEN BatchDoneDelete(rs, w)
    ELSE rs

\* MarkBatch returns 0, nil on a nil handle; the other calls dereference it
BatchErr(op, h) ==
    IF h.state = "open" THEN nil
    ELSE IF h.state = "closed" THEN "storage"
    ELSE IF op = "MarkBatch" THEN nil ELSE "panic"

\* a tick calls MarkBatch, ReadRequests(w), or BatchDone(w) for a batch w it
\* has claimed (the dumper that has these calls is the one whose NewDumper
\* opens the handle)
BatchCall(t) ==
    /\ started = "yes"
    /\ build.opens
    /\ batch[t].pc = "wait"
    /\ \A u \in Ticks : u < t => batch[u].pc # "wait"
    /\ \E op \in {"MarkBatch", "ReadRequests", "BatchDone"}, w \in 1..MaxWrites :
        /\ (op = "BatchDone" /\ dbh.state = "open") =>
              \E r \in files[dbh.file].rows : r.batch = w
        /\ (op # "BatchDone" \/ dbh.state # "open") => w = 1
        /\ files' = IF dbh.state = "open"
                    THEN [files EXCEPT ![dbh.file].rows = BatchEffect(op, @, w)]
                    ELSE files
        /\ batch' = [batch EXCEPT ![t] = [pc |-> "returned", op |-> op,
                                          err |-> BatchErr(op, dbh)]]
    /\ UNCHANGED <<build, started, curDate, dbh, dbhRWLock, dump, clock, faults, notRotVars>>

RotInit ==
    /\ variant = "delete"
    /\ rows = {}
    /\ seq = 0
    /\ clock = 0
    /\ faults = 0
    /\ handler = [h \in Handlers |-> HandlerInit]
    /\ tick = [t \in Ticks |-> TickInit]
    /\ call = [c \in Calls |-> CallInit]
    /\ locked = FALSE
    /\ OpenIdle
    /\ LogIdle
    /\ PgIdle
    /\ build \in Builds
    /\ RotFresh

RotNext ==
    \/ NewDumper
    \/ \E h \in Handlers : DumpArrive(h)
    \/ \E h \in Handlers : UpdateCurDate(h)
    \/ \E h \in Handlers : SetCurDate(h)
    \/ \E h \in Handlers : LockDbh(h)
    \/ \E h \in Handlers : CloseDbh(h)
    \/ \E h \in Handlers : Reopen(h)
    \/ \E h \in Handlers : RLockDbh(h)
    \/ \E h \in Handlers : DumpExec(h)
    \/ \E t \in Ticks : BatchCall(t)

RotSpec == RotInit /\ [][RotNext]_vars

\* ---- schema initialisation (reopenDBFile, SchemaInit, DbConnect) ----
\* the statements an opening function runs on target tg, by the tests it
\* makes (nothing else changes the schema of the target during a call):
\* reopenDBFile tests the database file (os.Open, os.IsNotExist): without
\*   it, sql.Open and Ping create the file and mustInit runs CREATE TABLE and
\*   CREATE INDEX; with it, no DDL runs;
\* DbConnect tests the schema row of information_schema.schemata: without it,
\*   CREATE SCHEMA, CREATE TABLE, CREATE INDEX; with it, no DDL runs;
\* SchemaInit tests the schema (CREATE SCHEMA without it) and then the table
\*   (CREATE TABLE and CREATE INDEX without it).
InitPlan(fn, tg) ==
    IF fn = "SchemaInit"
    THEN (IF tg.container THEN <<>> ELSE <<"container">>)
            \o (IF tg.table THEN <<>> ELSE <<"table", "index">>)
    ELSE IF tg.container THEN <<>> ELSE <<"container", "table", "index">>

\* the engine refuses a CREATE (no IF NOT EXISTS) of what exists already
DDLRefused(tg, ddl) ==
    \/ ddl = "container" /\ tg.container
    \/ ddl = "table" /\ tg.table
    \/ ddl = "index" /\ tg.index

\* the target after the statement
ExecDDL(tg, ddl) ==
    IF ddl = "container" THEN [tg EXCEPT !.container = TRUE]
    ELSE IF ddl = "table" THEN [tg EXCEPT !.table = TRUE]
    ELSE [tg EXCEPT !.index = TRUE]

\* the program starts (again, after the log.Fatal of a failed start, or a
\* rotation comes back to the file) and the opening function makes its
\* tests; a test that fails returns its error
OpenStart(o) ==
    /\ opening[o].pc = "idle"
    /\ \A g \in Opens : g < o => opening[g].pc = "returned"
    /\ \E ok \in Outcomes :
        /\ Fault(ok)
        /\ opening' = [opening EXCEPT ![o] =
               IF ok THEN [@ EXCEPT !.pc = "ddl", !.plan = InitPlan(opener, target)]
               ELSE [@ EXCEPT !.pc = "returned", !.err = "storage"]]
    /\ UNCHANGED <<opener, target, rows, seq, batchVars, retryVars, rotVars, logVars, pgVars>>

\* the next statement: for _, ddl := range ddls { _, err := dbh.Exec(ddl);
\* if err != nil { return err } }
OpenExec(o) ==
    /\ opening[o].pc = "ddl"
    /\ opening[o].plan # <<>>
    /\ LET ddl == Head(opening[o].plan)
       IN  IF DDLRefused(target, ddl)
           THEN /\ opening' = [opening EXCEPT ![o].pc = "returned", ![o].err = "exists"]
                /\ UNCHANGED <<target, faults>>
           ELSE \E ok \in Outcomes :
                /\ Fault(ok)
                /\ target' = IF ok THEN ExecDDL(target, ddl) ELSE target
                /\ opening' = [opening EXCEPT ![o] =
                       IF ok THEN [@ EXCEPT !.plan = Tail(@), !.made = @ \cup {ddl}]
                       ELSE [@ EXCEPT !.pc = "returned", !.err = "storage"]]
    /\ UNCHANGED <<opener, rows, seq, batchVars, retryVars, rotVars, logVars, pgVars>>

\* ctx.dbh = dbh (pg.dbh = dbh); return nil
OpenDone(o) ==
    /\ opening[o].pc = "ddl"
    /\ opening[o].plan = <<>>
    /\ opening' = [opening EXCEPT ![o].pc = "returned"]
    /\ UNCHANGED <<opener, target, faults, rows, seq, batchVars, retryVars, rotVars, logVars, pgVars>>

\* a call has returned the handle
Opened == \E o \in Opens : opening[o].pc = "returned" /\ opening[o].err = nil

\* Dump through the handle: the INSERT adds a row when the table is there
TargetWrite ==
    /\ Opened
    /\ target.table
    /\ target.n < MaxWrites
    /\ target' = [target EXCEPT !.n = @ + 1]
    /\ UNCHANGED <<opener, opening, faults, rows, seq, batchVars, retryVars, rotVars, logVars, pgVars>>

OpenInit ==
    /\ variant = "delete"
    /\ rows = {}
    /\ seq = 0
    /\ clock = 0
    /\ faults = 0
    /\ handler = [h \in Handlers |-> HandlerInit]
    /\ tick = [t \in Ticks |-> TickInit]
    /\ call = [c \in Calls |-> CallInit]
    /\ locked = FALSE
    /\ RotIdle
    /\ LogIdle
    /\ PgIdle
    /\ opener \in Openers
    /\ target = NoTarget
    /\ opening = [o \in Opens |-> OpeningInit]

OpenNext ==
    \/ \E o \in Opens : OpenStart(o)
    \/ \E o \in Opens : OpenExec(o)
    \/ \E o \in Opens : OpenDone(o)
    \/ TargetWrite

OpenSpec == OpenInit /\ [][OpenNext]_vars

\* ---- the Loggly processor: ProcessRequests ----
\* the bytes of a body: the sum of the sizes of the events in it
RECURSIVE BodySize(_)
BodySize(b) == IF b = <<>> THEN 0 ELSE b[1].n + BodySize(Tail(b))

\* the POST SendRequest builds: http.NewRequest takes l.buf as the body, and
\* DumpRequestOut and Client.Do read it, which leaves l.buf empty
Post(t, k, b) == [by |-> t, k |-> k, body |-> b]

\* if esize > l.EventMax { log.Printf(...); continue }
Oversized(req) == Formatted(req) > EventMax

\* if (size + esize) > l.BatchMax { err := l.SendRequest() ... l.buf.Reset() }
MustFlush(size, esize) == size + esize > BatchMax

\* a tick calls ProcessRequests(reqs): var size, esize int64
ProcessStart(t) ==
    /\ proc[t].pc = "idle"
    /\ \E reqs \in Batches(t) :
        proc' = [proc EXCEPT ![t] = [ProcInit EXCEPT !.pc = "loop", !.reqs = reqs, !.i = 1]]
    /\ UNCHANGED <<buf, posts, rows, seq, faults, batchVars, retryVars, rotVars, initVars, pgVars>>

\* one pass of the loop up to the test of BatchMax: an event larger than
\* EventMax is skipped; any other is written to l.buf, and either the loop
\* goes on with size += esize or SendRequest is called
WriteEvent(t) ==
    /\ proc[t].pc = "loop"
    /\ proc[t].i <= Len(proc[t].reqs)
    /\ LET req == proc[t].reqs[proc[t].i]
           esize == Formatted(req)
       IN  IF Oversized(req)
           THEN /\ proc' = [proc EXCEPT ![t].i = @ + 1]
                /\ buf' = buf
           ELSE /\ buf' = Append(buf, [by |-> t, i |-> proc[t].i, n |-> esize])
                /\ proc' = IF MustFlush(proc[t].size, esize)
                           THEN [proc EXCEPT ![t].pc = "send"]
                           ELSE [proc EXCEPT ![t].size = @ + esize, ![t].i = @ + 1]
    /\ UNCHANGED <<posts, rows, seq, faults, batchVars, retryVars, rotVars, initVars, pgVars>>

\* err := l.SendRequest() inside the loop; if err != nil { return err }
FlushSend(t) ==
    /\ proc[t].pc = "send"
    /\ \E answer \in Answers :
        LET err == SendRequest(answer)
        IN  /\ posts' = posts \cup {Post(t, proc[t].sends, buf)}
            /\ buf' = <<>>
            /\ proc' = [proc EXCEPT ![t].sends = @ + 1,
                                    ![t].err = err,
                                    ![t].pc = IF err = nil THEN "reset" ELSE "returned"]
    /\ UNCHANGED <<rows, seq, faults, batchVars, retryVars, rotVars, initVars, pgVars>>

\* l.buf.Reset() after the send, then size += esize and the next record
BufReset(t) ==
    /\ proc[t].pc = "reset"
    /\ buf' = <<>>
    /\ proc' = [proc EXCEPT ![t].size = @ + Formatted(proc[t].reqs[proc[t].i]),
                            ![t].i = @ + 1,
                            ![t].pc = "loop"]
    /\ UNCHANGED <<posts, rows, seq, faults, batchVars, retryVars, rotVars, initVars, pgVars>>

\* after the loop: if size > 0 { err := l.SendRequest() ... }; return
FinalSend(t) ==
    /\ proc[t].pc = "loop"
    /\ proc[t].i > Len(proc[t].reqs)
    /\ IF proc[t].size > 0
       THEN \E answer \in Answers :
                /\ posts' = posts \cup {Post(t, proc[t].sends, buf)}
                /\ buf' = <<>>
                /\ proc' = [proc EXCEPT ![t].sends = @ + 1,
                                        ![t].err = SendRequest(answer),
                                        ![t].pc = "returned"]
       ELSE /\ proc' = [proc EXCEPT ![t].pc = "returned"]
            /\ UNCHANGED <<buf, posts>>
    /\ UNCHANGED <<rows, seq, faults, batchVars, retryVars, rotVars, initVars, pgVars>>

LogInit ==
    /\ variant = "delete"
    /\ rows = {}
    /\ seq = 0
    /\ clock = 0
    /\ faults = 0
    /\ handler = [h \in Handlers |-> HandlerInit]
    /\ tick = [t \in Ticks |-> TickInit]
    /\ call = [c \in Calls |-> CallInit]
    /\ locked = FALSE
    /\ RotIdle
    /\ OpenIdle
    /\ PgIdle
    /\ LogIdle

LogNext ==
    \/ \E t \in Ticks : ProcessStart(t)
    \/ \E t \in Ticks : WriteEvent(t)
    \/ \E t \in Ticks : FlushSend(t)
    \/ \E t \in Ticks : BufReset(t)
    \/ \E t \in Ticks : FinalSend(t)

LogSpec == LogInit /\ [][LogNext]_vars

\* ---- PGConfig.Connect ----
\* (variant) a test that matches whitespace at the start of the string only
MatchString_Anchored(s) == Len(s) > 0 /\ s[1] \in Whitespace

\* whitespace.MatchString(s): some character of s is in the class
MatchString(s) == \E i \in 1..Len(s) : s[i] \in Whitespace

\* fmt.Sprintf("%s=%s", k, v)
KeyValue(k, v) == k \o <<"=">> \o v

\* strings.Join(opts, " ")
RECURSIVE Join(_)
Join(opts) ==
    IF opts = <<>> THEN <<>>
    ELSE IF Len(opts) = 1 THEN opts[1]
    ELSE opts[1] \o <<" ">> \o Join(Tail(opts))

\* the orders in which range cfg.Opts can yield the entries of the map
Orders(m) ==
    LET n == Cardinality(DOMAIN m)
    IN  { o \in [1..n -> Entries(m)] : \A i, j \in 1..n : o[i] = o[j] => i = j }

\* the part of Connect before sql.Open, for the order ord of the options:
\* the error it returns, or nil and the connection string
BuildDsn(c, ord) ==
    LET field(name, v) == IF v # <<>> THEN <<KeyValue(name, v)>> ELSE <<>>
        bad == { i \in 1..Len(ord) : MatchString(ord[i][1]) \/ MatchString(ord[i][2]) }
        first == CHOOSE i \in bad : \A j \in bad : i <= j
        opt == [i \in 1..Len(ord) |-> KeyValue(ord[i][1], ord[i][2])]
    IN  IF c.Url # <<>> THEN [err |-> nil, dsn |-> c.Url]
        ELSE IF c.Db # <<>> /\ MatchString(c.Db)
        THEN [err |-> "whitespace in database names is not supported", dsn |-> <<>>]
        ELSE IF c.User # <<>> /\ MatchString(c.User)
        THEN [err |-> "whitespace in user names is not supported", dsn |-> <<>>]
        ELSE IF c.Pass # <<>> /\ MatchString(c.Pass)
        THEN [err |-> "whitespace in passwords is not supported", dsn |-> <<>>]
        ELSE IF bad # {}
        THEN [err |-> IF MatchString(ord[first][1])
                      THEN "whitespace in option names is not supported"
                      ELSE "whitespace in option values is not supported",
              dsn |-> <<>>]
        ELSE [err |-> nil,
              dsn |-> Join(field(<<"dbname">>, c.Db) \o field(<<"user">>, c.User)
                           \o field(<<"password">>, c.Pass) \o opt)]

\* Connect up to the call of sql.Open: returns nil and the error, or goes on
\* to open the handle with the connection string
Connect ==
    /\ conn.pc = "idle"
    /\ \E ord \in Orders(cfg.Opts) :
        LET r == BuildDsn(cfg, ord)
        IN  conn' = [conn EXCEPT !.pc = IF r.err = nil THEN "sql.Open" ELSE "returned",
                                 !.err = r.err,
                                 !.dsn = r.dsn]
    /\ UNCHANGED <<cfg, rows, seq, faults, batchVars, retryVars, rotVars, initVars, logVars>>

\* dbh, err := sql.Open("postgres", dsn); if err != nil { return nil, err }
SqlOpen ==
    /\ conn.pc = "sql.Open"
    /\ \E ok \in Outcomes :
        /\ Fault(ok)
        /\ conn' = [conn EXCEPT !.pc = "returned",
                                !.err = IF ok THEN nil ELSE "sql.Open",
                                !.dbh = ok]
    /\ UNCHANGED <<cfg, rows, seq, batchVars, retryVars, rotVars, initVars, logVars>>

PgInit ==
    /\ variant = "delete"
    /\ rows = {}
    /\ seq = 0
    /\ clock = 0
    /\ faults = 0
    /\ handler = [h \in Handlers |-> HandlerInit]
    /\ tick = [t \in Ticks |-> TickInit]
    /\ call = [c \in Calls |-> CallInit]
    /\ locked = FALSE
    /\ RotIdle
    /\ OpenIdle
    /\ LogIdle
    /\ cfg \in Configs
    /\ conn = ConnInit

PgNext ==
    \/ Connect
    \/ SqlOpen

PgSpec == PgInit /\ [][PgNext]_vars

\* ---- reading the history kept in tick ----
\* MarkBatch of tick t has returned
ClaimReturned(t) == tick[t].pc \notin {"wait", "MarkSelect", "MarkUpdate"}

\* MarkBatch of tick t has returned without error
ClaimOK(t) == ClaimReturned(t) /\ ~(tick[t].err # nil /\ tick[t].calls = {})

\* MarkBatch of tick t has returned the none sentinel
ClaimNone(t) == ClaimOK(t) /\ tick[t].batchID = 0

\* BatchDone of tick t has returned without error
FinalizedOK(t) ==
    tick[t].pc = "returned" /\ "BatchDone" \in tick[t].calls /\ tick[t].err = nil

\* the rows the elements of a fetched sequence come from
Rids(reqs) == {reqs[i].rid : i \in 1..Len(reqs)}

AllTagged == UNION {tick[t].tagged : t \in Ticks}

\* ---- claims ----

\* C1: the sets of records tagged by two different claims are disjoint, under
\* every interleaving of writes and claims, overlapping claims included.
C1_DisjointClaims ==
    \A t, u \in Ticks : t # u => tick[t].tagged \cap tick[u].tagged = {}

\* two claims overlapped (u read its maximum while records t tagged were still
\* pending) and both tagged records
C1_Witness ==
    \E t, u \in Ticks :
        /\ t # u
        /\ tick[t].tagged # {} /\ tick[u].tagged # {}
        /\ tick[u].pend \cap tick[t].tagged # {}

\* C2: once writes have stopped, a claim that returns none leaves no record
\* pending, and the ids tagged by all claims are exactly the ids written.
C2_NoRecordLost ==
    \A t \in Ticks :
        (ClaimNone(t) /\ tick[t].quiet) =>
            /\ Pending(rows) = {}
            /\ AllTagged = 1..seq

\* every write is done, an earlier claim tagged records, a later one got none
C2_Witness ==
    \E t, u \in Ticks :
        /\ ClaimNone(t) /\ tick[t].quiet
        /\ seq >= 2
        /\ Cardinality(tick[u].tagged) >= 2

C4_NoneOnEmpty ==
    \A t \in Ticks :
        ClaimOK(t) =>
            /\ tick[t].pend = {} => (tick[t].batchID = 0 /\ tick[t].tagged = {})
            /\ tick[t].tagged = {} => tick[t].batchID = 0

\* one claim found every record tagged, the update of another affected no row
C4_Witness ==
    \E t \in Ticks :
        /\ ClaimNone(t)
        /\ tick[t].pend # {}
        /\ tick[t].tagged = {}
        /\ tick[t].maxID # 0
        /\ rows # {}

\* C5: in the deleting build, BatchDone(w) removes exactly the records tagged
\* w and leaves the pending records and the records with another tag as they
\* are; a claim that finds the surviving record as the only pending one
\* returns its id as watermark and tags and fetches that record alone.
C5_FrameStep ==
    \A t \in Ticks :
        (/\ variant = "delete"
         /\ tick[t].pc = "BatchDone"
         /\ tick'[t].pc = "returned"
         /\ tick'[t].err = nil) =>
            /\ \A r \in rows : r.batch = tick[t].batchID => r \notin rows'
            /\ \A r \in rows : r.batch # tick[t].batchID => r \in rows'
            /\ rows' \subseteq rows
            /\ tick'[t].finalized = tick[t].tagged

C5_OnlySurvivor ==
    \A u \in Ticks :
        (ClaimOK(u) /\ Cardinality(tick[u].pend) = 1) =>
            \/ /\ tick[u].batchID \in tick[u].pend
               /\ tick[u].tagged = tick[u].pend
               /\ ("ReadRequests" \in tick[u].calls /\ tick[u].reqs # <<>>)
                    => Rids(tick[u].reqs) = tick[u].pend
            \/ /\ tick[u].batchID = 0
               /\ tick[u].tagged = {}
               /\ \E v \in Ticks : v # u /\ tick[u].pend \subseteq tick[v].tagged

C5_FinalizeFrame == []C5_OnlySurvivor /\ [][C5_FrameStep]_vars

\* records 1 and 2 claimed with watermark 2, record 3 written after that claim
\* read its maximum, BatchDone(2) removed 1 and 2, and another claim returned
\* watermark 3 with record 3 alone
C5_Witness ==
    \E t, u \in Ticks :
        /\ variant = "delete"
        /\ FinalizedOK(t) /\ tick[t].batchID = 2 /\ tick[t].finalized = {1, 2}
        /\ 3 \notin tick[t].pend
        /\ tick[u].batchID = 3 /\ tick[u].tagged = {3} /\ tick[u].pend = {3}
        /\ Len(tick[u].reqs) = 1 /\ tick[u].reqs[1].rid = 3
        /\ Ids(rows) = {3}

\* C6: after BatchDone(w) has succeeded, calling BatchDone(w) again changes
\* nothing in the store, whatever writes and claims happened in between.
C6_FinalizeIdempotent ==
    \A t \in Ticks :
        FinalizedOK(t) => BatchDone(variant, rows, tick[t].batchID) = rows

\* after a BatchDone a later write was claimed into another batch
C6_Witness ==
    \E t, u \in Ticks :
        /\ FinalizedOK(t)
        /\ tick[u].batchID > tick[t].batchID
        /\ SelectBatch(rows, tick[u].batchID) # {}
        /\ Pending(rows) # {}

\* C7: ReadRequests(w) returns exactly the records whose tag is w, ascending
\* in arrival time (not in id); with no such record it returns the empty
\* sequence and no error.
C7_FetchOf(rs, w, s) ==
    /\ Len(s) = Cardinality(SelectBatch(rs, w))
    /\ Rids(s) = {r.id : r \in {x \in rs : x.batch = w}}
    /\ \A i \in 1..Len(s) : \E r \in rs :
           r.id = s[i].rid /\ r.batch = w /\ r.head = s[i].Head /\ r.date = s[i].When
    /\ \A i, j \in 1..Len(s) : i < j => s[i].When <= s[j].When

C7_FetchExact ==
    /\ \A w \in 0..MaxWrites :
        /\ ReadRequests(rows, w) # {}
        /\ \A s \in ReadRequests(rows, w) : C7_FetchOf(rows, w, s)
    /\ \A t \in Ticks :
        ("ReadRequests" \in tick[t].calls /\ tick[t].err = nil) =>
            /\ Rids(tick[t].reqs) = tick[t].tagged
            /\ Len(tick[t].reqs) = Cardinality(tick[t].tagged)
            /\ \A i, j \in 1..Len(tick[t].reqs) :
                   i < j => tick[t].reqs[i].When <= tick[t].reqs[j].When

\* a tick fetched a batch whose arrival order is not its id order, while some
\* watermark has no record
C7_Witness ==
    \E t \in Ticks :
        /\ Len(tick[t].reqs) >= 2
        /\ tick[t].reqs[1].rid > tick[t].reqs[2].rid
        /\ tick[t].reqs[1].When < tick[t].reqs[2].When
        /\ \E w \in 1..MaxWrites : ReadRequests(rows, w) = {<<>>}

\* C8: ProcessBatch finalizes only what the Processor accepted: BatchDone runs
\* only after ProcessRequests succeeded on the fetched sequence, the records
\* it finalizes are the records fetched, and no record leaves the store (or
\* gets the done tag) without that.
C8_FinalizeOnlyProcessed ==
    /\ \A t \in Ticks :
        /\ "BatchDone" \in tick[t].calls =>
              /\ tick[t].pres = "ok"
              /\ {"ReadRequests", "ProcessRequests"} \subseteq tick[t].calls
        /\ tick[t].finalized \subseteq Rids(tick[t].reqs)
        /\ FinalizedOK(t) => tick[t].finalized = Rids(tick[t].reqs)
    /\ \A i \in 1..seq :
        (i \notin Ids(rows) \/ \E r \in rows : r.id = i /\ r.batch = DoneTag) =>
            \E t \in Ticks : tick[t].pres = "ok" /\ i \in Rids(tick[t].reqs)

\* a batch was finalized while another tick was in flight and a record was
\* written after the claim
C8_Witness ==
    \E t, u \in Ticks :
        /\ FinalizedOK(t) /\ Cardinality(tick[t].finalized) >= 2
        /\ tick[u].pc \in {"MarkUpdate", "ReadRequests", "ProcessRequests", "BatchDone"}
        /\ seq > tick[t].batchID

\* C9: when the Processor reports failure for the batch with watermark w,
\* BatchDone is not called, every record of the batch stays in the store with
\* tag w, and no other claim returns w or tags one of those records.
C9_FailedBatchKept ==
    \A t \in Ticks :
        tick[t].pres = "fail" =>
            /\ "BatchDone" \notin tick[t].calls
            /\ tick[t].pc = "returned" /\ tick[t].err = "processor" /\ tick[t].n = 0
            /\ tick[t].finalized = {}
            /\ \A i \in Rids(tick[t].reqs) :
                   \E r \in rows : r.id = i /\ r.batch = tick[t].batchID
            /\ \A u \in Ticks : u # t =>
                   /\ tick[u].batchID # tick[t].batchID
                   /\ tick[u].tagged \cap Rids(tick[t].reqs) = {}

\* the Processor failed on a batch and a later claim took the records written
\* since, then found nothing more
C9_Witness ==
    \E t, u \in Ticks :
        /\ tick[t].pres = "fail"
        /\ tick[u].batchID > tick[t].batchID
        /\ tick[u].pc = "returned"
        /\ Pending(rows) = {}

\* C10: in a tick whose claim returns none, nothing else is called
\* (ReadRequests, the Processor, BatchDone), the store is not changed, and
\* ProcessBatch returns 0 records and no error.
C10_NoneStopsTick ==
    \A t \in Ticks :
        ClaimNone(t) =>
            /\ tick[t].pc = "returned"
            /\ tick[t].calls = {}
            /\ tick[t].pres = "none"
            /\ tick[t].tagged = {} /\ tick[t].finalized = {}
            /\ tick[t].n = 0 /\ tick[t].err = nil

\* a tick returned on an empty claim while tagged records of another tick are
\* in the store
C10_Witness ==
    \E t, u \in Ticks :
        /\ ClaimNone(t) /\ tick[t].pc = "returned"
        /\ tick[u].pc = "ProcessRequests"
        /\ SelectBatch(rows, tick[u].batchID) # {}

\* C11: a storage error returned by MarkBatch, ReadRequests or BatchDone ends
\* the tick at that call: the tick has returned 0 and the error, the Processor
\* was not called after a failed fetch, nothing was finalized, and from then on
\* the tick takes no further step (the scheduler only logs the error and does
\* not run the failed call again).
C11_Aborted ==
    \A t \in Ticks :
        tick[t].err = "storage" =>
            /\ tick[t].pc = "returned"
            /\ tick[t].n = 0
            /\ tick[t].finalized = {}
            /\ tick[t].calls \in {{}, {"ReadRequests"},
                                  {"ReadRequests", "ProcessRequests", "BatchDone"}}
            /\ "ProcessRequests" \notin tick[t].calls => tick[t].pres = "none"

C11_NoRerun ==
    \A t \in Ticks : tick[t].err = "storage" => tick'[t] = tick[t]

C11_FatalAborts == []C11_Aborted /\ [][C11_NoRerun]_vars

\* the fetch of a tick failed after its claim had tagged records; the records
\* are still in the store with their tag
C11_Witness ==
    \E t \in Ticks :
        /\ tick[t].err = "storage"
        /\ tick[t].calls = {"ReadRequests"}
        /\ tick[t].tagged # {}
        /\ Ids(SelectBatch(rows, tick[t].batchID)) = tick[t].tagged

\* C19: the capture handler answers with an error status whenever Dump
\* returned an error and with success only when Dump returned none (so every
\* success answer stands for one inserted record); when reading the request
\* fails the handler answers with an error and no write is attempted.
C19_Status ==
    /\ \A h \in Handlers :
        /\ handler[h].pc # "returned" => (handler[h].status = 0 /\ handler[h].err = nil)
        /\ handler[h].pc = "returned" =>
              /\ handler[h].err # nil => handler[h].status = 500
              /\ handler[h].status = 200 => handler[h].err = nil
              /\ handler[h].status \in {200, 500}
    /\ Cardinality({h \in Handlers : handler[h].status = 200}) = seq

C19_Step ==
    \A h \in Handlers :
        /\ (handler[h].pc = "Dump" /\ handler'[h].pc = "returned") =>
              IF handler'[h].err = nil
              THEN seq' = seq + 1 /\ \E r \in rows' \ rows : r.head = h /\ r.id = seq'
              ELSE rows' = rows /\ seq' = seq
        /\ (handler[h].pc = "recv" /\ handler'[h].pc = "returned") =>
              /\ handler'[h].err = "read"
              /\ rows' = rows /\ seq' = seq

C19_ErrorsSurfaced == []C19_Status /\ [][C19_Step]_vars

\* one handler got an error from Dump and answered 500, another wrote its
\* record and answered 200
C19_Witness ==
    \E h, g \in Handlers :
        /\ handler[h].pc = "returned" /\ handler[h].err = "storage"
        /\ handler[h].status = 500
        /\ handler[g].status = 200
        /\ \E r \in rows : r.head = g

\* C20: when the sink is unreachable or answers the send with a status other
\* than 200, the Processor reports failure for the batch, BatchDone is not
\* called and every record of the batch is still in the store under its tag.
C20_OutageKeepsBatch ==
    \A t \in Ticks :
        tick[t].sink \in {"unreachable", "503"} =>
            /\ tick[t].pres = "fail"
            /\ "BatchDone" \notin tick[t].calls
            /\ \A i \in Rids(tick[t].reqs) :
                   \E r \in rows : r.id = i /\ r.batch = tick[t].batchID

\* ---- reading the history kept in call ----
\* the step is an attempt of call c (db.Exec / db.Query and the decision)
AttemptStep(c) == call[c].pc = "attempt" /\ call'[c].pc # "attempt"

RowsOf(c) == {r \in rows : r.head = c}

\* C16: a write whose first attempt fails with SQLITE_LOCKED does not return
\* at that attempt and surfaces no error; when the retry succeeds the write
\* returns nil and exactly one record of it is in the store.
C16_RetriedWrite ==
    /\ \A c \in Calls :
        (/\ call[c].kind = "Exec" /\ call[c].pc = "returned"
         /\ call[c].first = "locked" /\ call[c].last = "ok") =>
            /\ call[c].err = NoError
            /\ Cardinality(RowsOf(c)) = 1
    /\ Cardinality(rows) = Cardinality({c \in Calls : RowsOf(c) # {}})

C16_LockedStep ==
    \A c \in Calls :
        (AttemptStep(c) /\ call[c].kind = "Exec" /\ call'[c].last = "locked") =>
            /\ call'[c].pc = "sleep"
            /\ call'[c].err = NoError
            /\ rows' = rows /\ seq' = seq

C16_LockedThenInserted == []C16_RetriedWrite /\ [][C16_LockedStep]_vars

\* a write was refused with SQLITE_LOCKED once, slept, and succeeded on its
\* second attempt
C16_Witness ==
    \E c \in Calls :
        /\ call[c].kind = "Exec" /\ call[c].pc = "returned"
        /\ call[c].first = "locked" /\ call[c].last = "ok"
        /\ call[c].attempts = 2 /\ call[c].sleeps = 1
        /\ RowsOf(c) # {}

\* C17: an attempt of ExecRetry / QueryRetry that fails with an error other
\* than SQLITE_LOCKED (another result code, or an error that is no
\* sqlite3.Error) makes the wrapper return that error at once: no sleep
\* follows, no further attempt is made, nothing is written.
C17_Returned ==
    \A c \in Calls :
        /\ (call[c].pc = "returned" /\ call[c].last = "other") =>
              /\ call[c].err # NoError
              /\ call[c].err.type = "fmt.Errorf" => call[c].err.code \in OtherCodes
              /\ call[c].err.type # "fmt.Errorf" => call[c].err = OtherError
              /\ RowsOf(c) = {}
        /\ (call[c].pc = "returned" /\ call[c].first = "other") =>
              /\ call[c].attempts = 1 /\ call[c].sleeps = 0
        /\ call[c].last = "other" => call[c].pc = "returned"

C17_OtherStep ==
    \A c \in Calls :
        /\ (AttemptStep(c) /\ call'[c].last = "other") =>
              /\ call'[c].pc = "returned"
              /\ call'[c].sleeps = call[c].sleeps
              /\ rows' = rows /\ seq' = seq
        /\ call[c].pc = "returned" => call'[c] = call[c]

C17_OtherErrorReturned == []C17_Returned /\ [][C17_OtherStep]_vars

\* a query got an error that is no sqlite3.Error on its first attempt and
\* returned it; a write got another result code after one locked attempt
C17_Witness ==
    \E c \in Calls :
        /\ call[c].kind = "Query" /\ call[c].pc = "returned"
        /\ call[c].err = OtherError /\ call[c].attempts = 1
        /\ \E g \in Calls : call[g].pc = "returned" /\ call[g].last = "ok"

\* C18: the wrapper never returns SQLITE_LOCKED to its caller: a locked
\* attempt is followed by a sleep and the same call again, without a limit on
\* the attempts; the wrapper returns at the first attempt that succeeds or
\* fails otherwise, so while the lock is held it returns only by another
\* failure; and once the lock stays clear every call in flight returns.
C18_Inv ==
    \A c \in Calls :
        /\ call[c].pc = "returned" =>
              /\ call[c].err.code # SQLITE_LOCKED
              /\ call[c].last \in {"ok", "other"}
              /\ call[c].last = "ok" <=> call[c].err = NoError
        /\ call[c].pc = "sleep" => (call[c].last = "locked" /\ call[c].err = NoError)

C18_Step ==
    \A c \in Calls :
        /\ AttemptStep(c) =>
              /\ call'[c].last = "locked" <=> call'[c].pc = "sleep"
              /\ locked => call'[c].last # "ok"
        /\ (call[c].pc = "sleep" /\ call'[c].pc # "sleep") =>
              /\ call'[c] = [call[c] EXCEPT !.pc = "attempt"]
              /\ rows' = rows

C18_Terminates ==
    (<>[](~locked)) =>
        \A c \in Calls : (call[c].pc \in {"attempt", "sleep"}) ~> (call[c].pc = "returned")

C18_NeverReturnsLocked == []C18_Inv /\ [][C18_Step]_vars /\ C18_Terminates

\* a call was refused with SQLITE_LOCKED as often as the counter counts, kept
\* retrying, and returned success once the lock was released
C18_Witness ==
    \E c \in Calls :
        /\ call[c].pc = "returned" /\ call[c].err = NoError
        /\ call[c].sleeps = MaxAttempts
        /\ ~locked

\* ---- reading the steps of the rotating-file store ----
\* the step is the insert of write h
InsertStep(h) == dump[h].pc = "Exec" /\ dump'[h].pc = "returned"

\* the step is a batch call of tick t
BatchStep(t) == batch[t].pc = "wait" /\ batch'[t].pc = "returned"

\* a rotation is between taking dbhRWLock and releasing it
Swapping == dbhRWLock.w # 0

\* C12: in the rotating-file store a record is inserted into the target of a
\* bucket label only while that label is the current one or is the label of
\* the record's timestamp: no record lands in the target of another bucket,
\* also when several writes cross the boundary together.
C12_InsertStep ==
    \A h \in Handlers :
        (InsertStep(h) /\ ~build.inMemory /\ build.rotates /\ dbh.state = "open") =>
            (dbh.file = curDate \/ dbh.file = Label(dump[h].now))

C12_NoRecordCrosses == [][C12_InsertStep]_vars

\* C13: no write executes its insert while a handle swap is in progress:
\* the rotation holds dbhRWLock exclusively from before it closes the old
\* handle until the new handle is installed, and a write holds it shared
\* during its insert.
C13_Lock ==
    /\ Swapping => dbhRWLock.r = {}
    /\ dbhRWLock.w \in Handlers \cup {0}
    /\ \A h \in Handlers :
        /\ dbhRWLock.w = h <=>
              (dump[h].pc \in {"Close", "reopen"} /\ RotationBranch(build) = "date")
        /\ h \in dbhRWLock.r <=> (dump[h].pc = "Exec" /\ ~build.inMemory)

C13_Step ==
    \A h \in Handlers :
        /\ InsertStep(h) =>
              /\ ~Swapping
              /\ ~build.inMemory => h \in dbhRWLock.r
        /\ (dump[h].pc = "Close" /\ dump'[h].pc # "Close") =>
              (dbhRWLock.w = h /\ dbhRWLock'.w = h)
        /\ (started = "yes" /\ dump[h].pc = "reopen" /\ dbh' # dbh) =>
              (dbhRWLock.w = h /\ dbh'.state = "open")
        /\ (started = "yes" /\ dbh' # dbh) => Swapping

C13_NoInsertDuringSwap == []C13_Lock /\ [][C13_Step]_vars

\* a rotation has closed the old handle and not yet installed the new one,
\* while a write waits for the shared hold and an earlier record is stored
C13_Witness ==
    \E h, g \in Handlers :
        /\ dump[h].pc = "reopen" /\ dbhRWLock.w = h
        /\ dbh.state = "closed"
        /\ dump[g].pc = "RLock"
        /\ files[dbh.file].rows # {}

\* two writes hold dbhRWLock shared at the same time
C13_SharedHold == Cardinality(dbhRWLock.r) >= 2

\* C14: MarkBatch, ReadRequests and BatchDone never run against the handle
\* while a rotation holds it for the swap or has closed it.
C14_BatchStep ==
    \A t \in Ticks :
        BatchStep(t) => (~Swapping /\ dbh.state # "closed")

C15_Once ==
    build.inMemory =>
        /\ started = "yes" =>
              /\ dbh = [file |-> MemDB, state |-> "open"]
              /\ files[MemDB].opened = 1 /\ files[MemDB].inits = 1
        /\ started # "yes" => (dbh = NilDbh /\ files[MemDB].opened = 0)
        /\ \A t \in 0..MaxTime : ~files[Label(t)].exists
        /\ ~Swapping /\ curDate = NoDate
        /\ \A h \in Handlers : dump[h].err = nil

C15_Kept ==
    (build.inMemory /\ started = "yes") => (dbh' = dbh /\ started' = "yes")

C15_MemoryHandleOnce == []C15_Once /\ [][C15_Kept]_vars

\* in the in-memory mode every write has run its rotation check and stored
\* its record, the first and the last in different time buckets
C15_Witness ==
    /\ build.inMemory /\ build.rotates
    /\ \A h \in Handlers : dump[h].pc = "returned"
    /\ Cardinality(files[MemDB].rows) = MaxWrites
    /\ \E r, q \in files[MemDB].rows : r.date # q.date

\* ---- reading the steps of the batch protocol ----
\* the step is the UPDATE of the claim of tick t
ClaimStep(t) == tick[t].pc = "MarkUpdate" /\ tick'[t].pc # "MarkUpdate"

\* the step is the BatchDone of tick t
FinalizeStep(t) == tick[t].pc = "BatchDone" /\ tick'[t].pc = "returned"

\* C21: a record gets its id once, at the insert, above the id of every
\* record inserted before it (deleted ones included), and keeps it; its tag
\* is unset from the insert until a claim sets it to that claim's watermark,
\* and no write, claim or fetch changes or unsets a tag that is set: it stays
\* until BatchDone deletes the record (or writes the done tag).
C21_Rows ==
    /\ \A r, q \in rows : r.id = q.id => r = q
    /\ \A r \in rows :
        /\ r.id \in 1..seq
        /\ r.batch = NULL \/ r.batch = DoneTag \/ r.batch >= r.id

C21_Step ==
    /\ seq' >= seq
    /\ \A q \in rows' :
        q.id \notin Ids(rows) => (q.id > seq /\ q.id <= seq' /\ q.batch = NULL)
    /\ \A r \in rows :
        LET S == {q \in rows' : q.id = r.id}
        IN  /\ \A q \in S :
                /\ q.head = r.head /\ q.date = r.date
                /\ q.batch # r.batch =>
                      \/ /\ r.batch = NULL
                         /\ \E t \in Ticks : ClaimStep(t) /\ q.batch = tick[t].maxID
                      \/ /\ r.batch > 0 /\ q.batch = DoneTag /\ variant = "mark"
                         /\ \E t \in Ticks : FinalizeStep(t) /\ tick[t].batchID = r.batch
            /\ S = {} =>
                  /\ r.batch > 0 /\ variant = "delete"
                  /\ \E t \in Ticks : FinalizeStep(t) /\ tick[t].batchID = r.batch

C21_IdAndTagStable == []C21_Rows /\ [][C21_Step]_vars

\* a batch was deleted, a record written after the deletion got an id above
\* the deleted ones, and was claimed into a later batch
C21_Witness ==
    \E t \in Ticks :
        /\ variant = "delete" /\ FinalizedOK(t) /\ tick[t].finalized # {}
        /\ \E r \in rows :
            /\ r.batch > tick[t].batchID
            /\ r.id \notin tick[t].pend
            /\ \A i \in tick[t].finalized : r.id > i

\* a write is inside the rotation of updateCurDate: it has found cur != nowstr
\* and has not yet returned from reopenDBFile
Rotating(h) == dump[h].pc \in {"setCurDate", "Lock", "Close", "reopen"}

NoRotation == \A h \in Handlers : ~Rotating(h)

\* the step is reopenDBFile of write h returning an error
ReopenFails(h) == dump[h].pc = "reopen" /\ dump'[h].pc = "returned"

\* C22: in the rotating-file store, once a handle has been installed and
\* while no rotation is in progress, the handle is open and is on the target
\* that curDate names.
C22_OneLiveHandle ==
    (/\ started = "yes" /\ RotationBranch(build) = "date"
     /\ dbh.state # "nil" /\ NoRotation) =>
        (dbh.state = "open" /\ dbh.file = curDate)

\* C29: when reopenDBFile fails in a rotation, curDate is not left on the new
\* label and the handle of the store is not left closed, so that the next
\* write of that bucket runs the rotation again.
C29_FailStep ==
    \A h \in Handlers :
        (ReopenFails(h) /\ RotationBranch(build) = "date") =>
            /\ curDate' # Label(dump[h].now)
            /\ dbh'.state # "closed"

C29_FailedRotationUndone == [][C29_FailStep]_vars

\* C30: the swap for a boundary is made once: no write closes the open
\* handle of the label it rotates to, and a write that finds its label
\* current inserts through the handle of that label.
C30_Step ==
    \A h \in Handlers :
        /\ (dump[h].pc = "Close" /\ dump'[h].pc = "reopen") =>
              ~(dbh.state = "open" /\ dbh.file = Label(dump[h].now))
        /\ (InsertStep(h) /\ build.rotates /\ RotationBranch(build) = "date"
            /\ curDate = Label(dump[h].now) /\ dbh.state = "open") =>
              dbh.file = curDate

C30_SwapOnce == [][C30_Step]_vars

\* C23: the table and the index are created when and only when the target
\* being opened lacks them: no opening call is refused a CREATE of something
\* that exists, and a call that returns the handle leaves the target with
\* the table raw_requests and the index on the batch column.
C23_InitIdempotent ==
    \A o \in Opens :
        opening[o].pc = "returned" =>
            /\ opening[o].err # "exists"
            /\ opening[o].err = nil => (target.table /\ target.index)

\* tick t is between the start of its cycle and its return
InFlight(t) == tick[t].pc \notin {"wait", "returned"}

\* the next call of tick t's cycle can be made
CycleEnabled(t) ==
    \/ ENABLED MarkBatchSelect(t)
    \/ ENABLED MarkBatchUpdate(t)
    \/ ENABLED Read(t)
    \/ ENABLED Process(t)
    \/ ENABLED Done(t)

\* C24: the scheduler does not serialize ticks: the cycle of an interval can
\* start whether or not the cycles before it have returned, and no call of a
\* cycle in flight waits for another cycle (so two cycles are in flight at
\* once and their Processor and BatchDone calls complete in any order).
C24_TicksNotSerialized ==
    \A t \in Ticks :
        /\ (tick[t].pc = "wait" /\ \A u \in Ticks : u < t => tick[u].pc # "wait") =>
              ENABLED TickFire(t)
        /\ InFlight(t) => CycleEnabled(t)

\* the cycle that claimed second (the larger watermark) has had its batch
\* processed and finalized while the cycle that claimed first still waits for
\* its Processor call
C24_Witness ==
    \E t, u \in Ticks :
        /\ t < u
        /\ tick[t].batchID > 0 /\ tick[u].batchID > tick[t].batchID
        /\ tick[t].pc = "ProcessRequests"
        /\ FinalizedOK(u) /\ tick[u].finalized # {}

\* the rows that carry the done tag
DoneRows(rs) == {r \in rs : r.batch = DoneTag}

\* C25: in the marking build BatchDone keeps the records of its batch and
\* sets their tag to -1; a record with that tag is not counted as pending by
\* a claim (neither by its SELECT nor by its UPDATE), is returned by no
\* ReadRequests(w) for a watermark w, and keeps the tag; what a claim counts
\* as pending are exactly the records whose tag is 0 or NULL.
C25_Kept ==
    variant = "mark" =>
        /\ Ids(rows) = 1..seq
        /\ \A t \in Ticks : \A i \in tick[t].finalized :
               \E r \in DoneRows(rows) : r.id = i
        /\ \A r \in DoneRows(rows) : \E t \in Ticks : r.id \in tick[t].finalized
        /\ \A r \in DoneRows(rows) : SelectMaxPending(rows) # r.id
        /\ \A w \in 1..MaxWrites : \A s \in ReadRequests(rows, w) :
               Rids(s) \cap Ids(DoneRows(rows)) = {}

C25_Step ==
    variant = "mark" =>
        /\ DoneRows(rows) \subseteq rows'
        /\ \A t \in Ticks :
            /\ (tick[t].pc = "MarkSelect" /\ tick'[t].pc # "MarkSelect") =>
                  tick'[t].pend = {r.id : r \in {x \in rows : x.batch \in {0, NULL}}}
            /\ ClaimStep(t) =>
                  \A r \in rows : r.batch \notin {0, NULL} => r \in rows'
            /\ (tick[t].pc = "ReadRequests" /\ tick'[t].pc # "ReadRequests") =>
                  Rids(tick'[t].reqs) \cap Ids(DoneRows(rows)) = {}
            /\ (FinalizeStep(t) /\ tick'[t].err = nil) =>
                  /\ Ids(rows') = Ids(rows)
                  /\ Ids(DoneRows(rows')) =
                        Ids(DoneRows(rows)) \cup Ids(SelectBatch(rows, tick[t].batchID))

C25_SentinelKept == []C25_Kept /\ [][C25_Step]_vars

\* a finalized batch is in the store under the done tag, its watermark
\* fetches nothing, and a later claim has read its maximum above those
\* records and is about to run its UPDATE over them
C25_Witness ==
    \E t, u \in Ticks :
        /\ variant = "mark"
        /\ FinalizedOK(t) /\ tick[t].finalized # {}
        /\ ReadRequests(rows, tick[t].batchID) = {<<>>}
        /\ tick[u].pc = "MarkUpdate"
        /\ \A i \in tick[t].finalized : i < tick[u].maxID
        /\ tick[u].pend \cap tick[t].finalized = {}

\* C26: watermarks identify batches: a watermark MarkBatch returns with a
\* batch is an id of the store (never 0), no two claims return the same one,
\* and each is above every watermark returned before it, under every
\* interleaving of writes, claims and finalizes.
C26_Unique ==
    \A t \in Ticks :
        /\ tick[t].batchID \in 0..seq
        /\ (ClaimOK(t) /\ tick[t].tagged # {}) => tick[t].batchID >= 1
        /\ \A u \in Ticks :
               (u # t /\ tick[t].batchID # 0) => tick[u].batchID # tick[t].batchID

C26_Step ==
    \A t \in Ticks :
        (ClaimStep(t) /\ tick'[t].batchID # 0) =>
            \A u \in Ticks : u # t => tick'[t].batchID > tick[u].batchID

C26_WatermarksUnique == []C26_Unique /\ [][C26_Step]_vars

\* two claims that overlapped returned different watermarks, the batch of
\* the first has been deleted and a third record was written
C26_Witness ==
    \E t, u \in Ticks :
        /\ variant = "delete" /\ FinalizedOK(t)
        /\ tick[t].batchID >= 1 /\ tick[u].batchID > tick[t].batchID
        /\ tick[u].pend \cap tick[t].tagged # {}
        /\ seq = MaxWrites

\* C27: at the step where MarkBatch returns watermark w, every record tagged
\* w has id <= w, the record with id w is in the store with tag w, and no
\* record with id <= w is pending, whatever writes and claims ran between
\* the SELECT and the UPDATE of the claim.
C27_ReturnStep ==
    \A t \in Ticks :
        (ClaimStep(t) /\ tick'[t].batchID # 0) =>
            LET w == tick'[t].batchID
            IN  /\ \A r \in SelectBatch(rows', w) : r.id <= w
                /\ \E r \in SelectBatch(rows', w) : r.id = w
                /\ \A r \in Pending(rows') : r.id > w
                /\ Ids(SelectBatch(rows', w)) = tick'[t].tagged

C27_BatchClosedAtReturn == [][C27_ReturnStep]_vars

\* a claim has just returned its watermark after a write and the UPDATE of
\* another claim ran between its two statements: the other claim tagged
\* records this one had seen pending
C27_Witness ==
    \E t, u \in Ticks :
        /\ t # u
        /\ tick[t].pc = "ReadRequests" /\ tick[t].calls = {}
        /\ tick[t].batchID # 0
        /\ tick[t].mid # {}
        /\ tick[u].tagged # {} /\ tick[u].tagged \subseteq tick[t].pend

\* C28: every element of the sequence ReadRequests has returned reports, as
\* its ID, the id of the stored row its head and date come from, so a batch
\* of n records carries n distinct ids.
C28_FetchedIds ==
    \A t \in Ticks :
        ("ReadRequests" \in tick[t].calls /\ tick[t].err = nil) =>
            /\ \A i \in 1..Len(tick[t].reqs) : tick[t].reqs[i].ID = tick[t].reqs[i].rid
            /\ Cardinality({tick[t].reqs[i].ID : i \in 1..Len(tick[t].reqs)})
                   = Len(tick[t].reqs)

\* tick t has returned after a claim that returned a watermark, without a
\* BatchDone that succeeded and without a failure of the Processor: the fetch
\* or BatchDone returned a storage error, or the fetch returned no record
AbortedAfterClaim(t) ==
    /\ tick[t].pc = "returned"
    /\ ClaimOK(t) /\ tick[t].batchID # 0
    /\ \/ tick[t].err = "storage"
       \/ tick[t].err = nil /\ "BatchDone" \notin tick[t].calls

\* C31: when a tick is aborted after its claim succeeded (storage error of
\* ReadRequests or of BatchDone, or an empty fetch), every record the claim
\* tagged is still in the store with the claim's watermark as its tag, nothing
\* was finalized, and ProcessBatch has returned 0.
C31_AbortKeepsBatch ==
    \A t \in Ticks :
        AbortedAfterClaim(t) =>
            /\ tick[t].n = 0
            /\ tick[t].finalized = {}
            /\ tick[t].tagged # {}
            /\ \A i \in tick[t].tagged :
                   \E r \in rows : r.id = i /\ r.batch = tick[t].batchID
            /\ Ids(SelectBatch(rows, tick[t].batchID)) = tick[t].tagged

\* BatchDone of a tick failed after the Processor had accepted the batch; the
\* batch is in the store under its watermark while another tick has claimed
\* and finalized the records written since
C31_Witness ==
    \E t, u \in Ticks :
        /\ AbortedAfterClaim(t)
        /\ tick[t].calls = {"ReadRequests", "ProcessRequests", "BatchDone"}
        /\ tick[t].pres = "ok"
        /\ Len(tick[t].reqs) >= 1
        /\ FinalizedOK(u) /\ tick[u].batchID > tick[t].batchID

\* write h holds something of dbhRWLock
Holds(h) == dbhRWLock.w = h \/ h \in dbhRWLock.r

\* write h waits for write g: h is in dbhRWLock.Lock() and g holds the lock,
\* or h is in dbhRWLock.RLock() and g holds the lock as writer or is in Lock()
\* already (sync.RWMutex lets no new reader in once a writer waits)
WaitsFor(h, g) ==
    /\ h # g
    /\ \/ dump[h].pc = "Lock" /\ Holds(g)
       \/ dump[h].pc = "RLock" /\ (dbhRWLock.w = g \/ dump[g].pc = "Lock")

\* write h is between its arrival and its return and waits for nobody
CanStep(h) ==
    /\ dump[h].pc \notin {"recv", "returned"}
    /\ \A g \in Handlers : ~WaitsFor(h, g)

\* a step of getCurDate or setCurDate (the only holds of curDateRWLock, taken
\* and released inside the call) is made by a write that holds nothing of
\* dbhRWLock, and a call of a tick takes no lock
C32_Step ==
    /\ \A h \in Handlers :
           (dump[h].pc \in {"updateCurDate", "setCurDate"} /\ dump'[h] # dump[h]) =>
               ~Holds(h) /\ dbhRWLock' = dbhRWLock
    /\ batch' # batch => dbhRWLock' = dbhRWLock

\* C32: the rotating-file store cannot deadlock. No write that has returned,
\* with nil or with an error, holds a lock; a write that holds dbhRWLock waits
\* for nobody and its next step can be taken; no two writes wait for each
\* other; and while some write is under way, one of them can take a step; the
\* bucket-label lock is never taken while the handle lock is held.
C32_NoDeadlock ==
    /\ [](\A h \in Handlers : dump[h].pc \in {"recv", "returned"} => ~Holds(h))
    /\ [](\A h \in Handlers :
             Holds(h) => CanStep(h) /\ ENABLED (CloseDbh(h) \/ Reopen(h) \/ DumpExec(h)))
    /\ [](\A h, g \in Handlers : ~(WaitsFor(h, g) /\ WaitsFor(g, h)))
    /\ []((\E h \in Handlers : dump[h].pc \notin {"recv", "returned"}) =>
             \E h \in Handlers : CanStep(h))
    /\ [][C32_Step]_vars

\* a rotation waits in Lock() for a write that holds the read lock while a
\* third write waits in RLock() behind the rotation, and the store is not stuck
C32_Witness ==
    \E h, g, k \in Handlers :
        /\ dump[h].pc = "Lock" /\ g \in dbhRWLock.r /\ dump[k].pc = "RLock"
        /\ WaitsFor(h, g) /\ WaitsFor(k, h)
        /\ CanStep(g)

\* a rotation whose reopenDBFile returned an error has released the lock, and
\* the write behind it has taken the read lock
C32_ErrorReleased ==
    \E h, g \in Handlers :
        /\ dump[h].pc = "returned" /\ dump[h].err = "storage" /\ ~Holds(h)
        /\ dbhRWLock.w = 0 /\ g \in dbhRWLock.r

\* ---- reading the requests of the Loggly processor ----
\* the places where record i of the batch of tick t was written into a request
Places(t, i) ==
    { <<p, j>> \in posts \X (1..(MaxBatch + MaxOverlap + 1)) :
        j <= Len(p.body) /\ p.body[j].by = t /\ p.body[j].i = i }

\* C33: ProcessRequests submits in appropriately-sized requests: no request
\* SendRequest has built has a body of more than BatchMax bytes, and none has
\* an empty body.
C33_RequestsSized ==
    \A p \in posts : p.body # <<>> /\ BodySize(p.body) <= BatchMax

\* C34: when ProcessRequests has returned nil for a batch, every record of
\* the batch was written into exactly one request, also when the batch was
\* split and when two ticks run ProcessRequests on the shared buffer.
C34_EachRecordOnce ==
    \A t \in Ticks :
        (proc[t].pc = "returned" /\ proc[t].err = nil) =>
            \A i \in 1..Len(proc[t].reqs) : Cardinality(Places(t, i)) = 1

\* ---- reading the call of PGConfig.Connect ----
\* the string has a whitespace character somewhere in it
HasWhitespace(s) == \E i \in DOMAIN s : s[i] \in {" ", "\t", "\n", "\f", "\r"}

\* the database name, the user, the password, or the name or the value of an
\* option has whitespace in it
SomeFieldHasWhitespace ==
    \/ HasWhitespace(cfg.Db) \/ HasWhitespace(cfg.User) \/ HasWhitespace(cfg.Pass)
    \/ \E k \in DOMAIN cfg.Opts : HasWhitespace(k) \/ HasWhitespace(cfg.Opts[k])

WhitespaceErrors ==
    { "whitespace in database names is not supported",
      "whitespace in user names is not supported",
      "whitespace in passwords is not supported",
      "whitespace in option names is not supported",
      "whitespace in option values is not supported" }

\* C35: once Connect has been called with an empty Url and whitespace in the
\* database name, the user, the password or an option name or value, it has
\* returned one of its whitespace errors, has not reached sql.Open and has
\* opened no handle; with a non-empty Url the connection string is Url
\* unchanged and no whitespace error is returned, whatever the other fields
\* hold.
C35_ConnectValidates ==
    conn.pc # "idle" =>
        /\ (cfg.Url = <<>> /\ SomeFieldHasWhitespace) =>
               /\ conn.pc = "returned"
               /\ conn.err \in WhitespaceErrors
               /\ conn.dsn = <<>>
               /\ ~conn.dbh
        /\ cfg.Url # <<>> =>
               /\ conn.dsn = cfg.Url
               /\ conn.err \notin WhitespaceErrors
               /\ conn.pc = "returned" => (conn.dbh <=> conn.err = nil)

\* Connect has refused a configuration whose only whitespace is inside the
\* password, after the first character
C35_Witness ==
    /\ conn.pc = "returned" /\ conn.err = "whitespace in passwords is not supported"
    /\ cfg.Url = <<>> /\ cfg.Pass = <<"a", " ">>
    /\ ~HasWhitespace(cfg.Db) /\ ~HasWhitespace(cfg.User) /\ cfg.Db # <<>>
    /\ ~conn.dbh

\* Connect has opened a handle on a Url with a space in it, with whitespace in
\* the other fields
C35_UrlUsed ==
    /\ conn.pc = "returned" /\ conn.dbh /\ conn.err = nil
    /\ cfg.Url = <<" ">> /\ conn.dsn = cfg.Url
    /\ HasWhitespace(cfg.Db) /\ \E k \in DOMAIN cfg.Opts : HasWhitespace(k)

\* Connect has built the connection string from every field
C35_Joined ==
    /\ conn.pc = "returned" /\ conn.dbh
    /\ cfg.Url = <<>>
    /\ conn.dsn = <<"dbname", "=", "a", " ", "user", "=", "a", " ",
                    "password", "=", "a", "a", " ", "a", "=", "a">>

====
